---- MODULE Spec2Model ----
(***************************************************************************)
(* A model of collate.py: Aggregate (column expansion) and                 *)
(* SpacetimeAggregation (per-group selects, creates, drops, indexes and    *)
(* the final joined table).                                                *)
(*                                                                         *)
(* Text.  A Python str is a sequence of fragments.  A fragment is either   *)
(* one character of an input (the quote character and the space always     *)
(* stand alone), one word of an input, or one literal piece of a format    *)
(* string of the source.  str.replace(c, '') removes the fragments equal   *)
(* to c, string formatting is concatenation.                               *)
(*                                                                         *)
(* Python values whose type the code inspects (make_list, "is None",       *)
(* truthiness) are records [type, val].                                    *)
(***************************************************************************)
EXTENDS Integers, Sequences, FiniteSets, TLC

VARIABLES
    pool,     \* the Aggregate objects constructed so far, in order
    plan,     \* <<>> before the SpacetimeAggregation exists, <<self>> after
    result    \* the last call: its name, arguments, outcome, and the
              \* caller's select dictionary as the call left it

vars == <<pool, plan, result>>

----------------------------------------------------------------------------
(* Bounds                                                                  *)

MaxAggregates == 2

MaxDates == 2

----------------------------------------------------------------------------
(* Python values                                                           *)

None == [type |-> "NoneType", val |-> <<>>]

Str(t) == [type |-> "str", val |-> t]

List(s) == [type |-> "list", val |-> s]

Tuple(s) == [type |-> "tuple", val |-> s]

Dict(f) == [type |-> "dict", val |-> f]

\* Python truthiness of None, a str and a dict: "not x", "x if x else y".
Truthy(v) == v.type # "NoneType" /\ DOMAIN v.val # {}

\* The outcome of a call: a returned value or a raised exception.
Return(v) == [raised |-> "", ret |-> v]

Raise(e) == [raised |-> e, ret |-> <<>>]

----------------------------------------------------------------------------
(* Text helpers                                                            *)

DQ == "\""

\* s.replace(c, '')
RECURSIVE Replace(_, _)
Replace(s, c) ==
    IF s = <<>> THEN <<>>
    ELSE IF Head(s) = c THEN Replace(Tail(s), c)
    ELSE <<Head(s)>> \o Replace(Tail(s), c)

\* str.join(sep, texts)
RECURSIVE StrJoin(_, _)
StrJoin(sep, texts) ==
    IF texts = <<>> THEN <<>>
    ELSE IF Len(texts) = 1 THEN texts[1]
    ELSE texts[1] \o <<sep>> \o StrJoin(sep, Tail(texts))

\* itertools.chain(*seqs)
RECURSIVE Chain(_)
Chain(seqs) ==
    IF seqs = <<>> THEN <<>> ELSE Head(seqs) \o Chain(Tail(seqs))

\* zip(a, b): stops at the shorter one
Zip(a, b) ==
    LET n == IF Len(a) <= Len(b) THEN Len(a) ELSE Len(b)
    IN  [j \in 1..n |-> <<a[j], b[j]>>]

\* A faulty product: the second collection is the outer loop.
RECURSIVE ProductSwapped(_, _)
ProductSwapped(a, b) ==
    IF b = <<>> THEN <<>>
    ELSE [i \in 1..Len(a) |-> <<a[i], Head(b)>>] \o ProductSwapped(a, Tail(b))

\* itertools.product(a, b): for x in a: for y in b: yield (x, y)
RECURSIVE Product(_, _)
Product(a, b) ==
    IF a = <<>> THEN <<>>
    ELSE [j \in 1..Len(b) |-> <<Head(a), b[j]>>] \o Product(Tail(a), b)

----------------------------------------------------------------------------
(* Module-level functions                                                  *)

make_list(a) ==
    IF ~(a.type \in {"list", "tuple"}) THEN <<a.val>> ELSE a.val

to_sql_name(name) == Replace(name, DQ)

----------------------------------------------------------------------------
(* class Aggregate                                                         *)

\* A faulty Aggregate.__init__: the length check is skipped.
AggregateInitUnchecked(quantity, function, name) ==
    LET quantities == make_list(quantity)
        functions == make_list(function)
    IN  Return([quantities |-> quantities,
                functions |-> functions,
                quantity_names |->
                    IF name.type # "NoneType" THEN make_list(name)
                    ELSE [j \in 1..Len(quantities) |->
                              Replace(quantities[j], DQ)]])

\* Aggregate.__init__
AggregateInit(quantity, function, name) ==
    LET quantities == make_list(quantity)
        functions == make_list(function)
    IN  IF name.type # "NoneType"
        THEN LET quantity_names == make_list(name)
             IN  IF Len(quantity_names) # Len(quantities)
                 THEN Raise("ValueError")
                 ELSE Return([quantities |-> quantities,
                              functions |-> functions,
                              quantity_names |-> quantity_names])
        ELSE Return([quantities |-> quantities,
                     functions |-> functions,
                     quantity_names |->
                         [j \in 1..Len(quantities) |->
                              Replace(quantities[j], DQ)]])

\* ex.literal_column(column).label(name)
LabelledColumn(column, name) == [text |-> column, name |-> name]

\* Aggregate.get_columns, the generator run to its end
get_columns(self, when, prefix) ==
    LET pfx == IF prefix.type = "NoneType" THEN <<>> ELSE prefix.val
        pairs == Product(self.functions,
                         Zip(self.quantities, self.quantity_names))
        column(function, quantity) ==
            IF when.type = "NoneType"
            THEN function \o <<"(">> \o quantity \o <<")">>
            ELSE function \o <<"(CASE WHEN ">> \o when.val
                     \o <<" THEN ">> \o quantity \o <<" END)">>
        name(function, quantity_name) ==
            pfx \o quantity_name \o <<"_">> \o function
    IN  [k \in 1..Len(pairs) |->
            LabelledColumn(column(pairs[k][1], pairs[k][2][1]),
                           to_sql_name(name(pairs[k][1], pairs[k][2][2])))]

----------------------------------------------------------------------------
(* class SpacetimeAggregation                                              *)
(*                                                                         *)
(* group_intervals, a dict, is the sequence of its items in iteration      *)
(* order, each [group, intervals]; the keys are distinct.  A dict the      *)
(* code returns is a function on its key set.                              *)

Keys(items) == {items[i].group : i \in 1..Len(items)}

KeyList(items) == [i \in 1..Len(items) |-> items[i].group]

Lookup(items, group) ==
    items[CHOOSE i \in 1..Len(items) : items[i].group = group].intervals

\* SpacetimeAggregation.__init__
SpacetimeAggregationInit(aggregates, group_intervals, from_obj, dates, prefix, suffix, date_column) ==
    [aggregates |-> aggregates,
     from_obj |-> from_obj,
     group_intervals |-> group_intervals,
     groups |-> KeyList(group_intervals),
     dates |-> dates,
     prefix |-> IF Truthy(prefix) THEN prefix.val ELSE from_obj,
     suffix |-> IF Truthy(suffix) THEN suffix.val ELSE <<"aggregation">>,
     date_column |-> IF Truthy(date_column) THEN date_column.val
                     ELSE <<"date">>]

\* A faulty window test: no window gets a predicate.
WindowPredicateNever(self, interval, date) == None

\* SpacetimeAggregation._get_aggregates_sql, the "when" it builds
WindowPredicate(self, interval, date) ==
    IF interval # <<"all">>
    THEN Str(<<"'">> \o date \o <<"' <= ">> \o self.date_column
                 \o <<" + interval '">> \o interval \o <<"'">>)
    ELSE None

\* A faulty column prefix: the window comes before the group.
ColumnPrefixSwapped(self, interval, group) ==
    self.prefix \o <<"_">> \o Replace(interval, " ") \o <<"_">> \o group
        \o <<"_">>

\* SpacetimeAggregation._get_aggregates_sql, the "prefix" it builds
ColumnPrefix(self, interval, group) ==
    self.prefix \o <<"_">> \o group \o <<"_">> \o Replace(interval, " ")
        \o <<"_">>

_get_aggregates_sql(self, interval, date, group) ==
    LET when == WindowPredicate(self, interval, date)
        prefix == Str(ColumnPrefix(self, interval, group))
    IN  Chain([a \in 1..Len(self.aggregates) |->
                   get_columns(self.aggregates[a], when, prefix)])

\* A faulty cutoff: events dated at the reference date are kept.
WhereClauseInclusive(self, date) ==
    self.date_column \o <<" <= '">> \o date \o <<"'">>

\* SpacetimeAggregation.get_selects, the "where" it builds
WhereClause(self, date) ==
    self.date_column \o <<" < '">> \o date \o <<"'">>

\* The query get_selects builds for one group and one date
Select(self, group, intervals, date) ==
    [columns |->
         <<[text |-> group],
           LabelledColumn(<<"'">> \o date \o <<"'::date">>, <<"date">>)>>
         \o Chain([i \in 1..Len(intervals) |->
                       _get_aggregates_sql(self, intervals[i], date, group)]),
     from_obj |-> self.from_obj,
     where |-> WhereClause(self, date),
     group_by |-> group]

get_selects(self) ==
    [group \in Keys(self.group_intervals) |->
        [d \in 1..Len(self.dates) |->
            Select(self, group, Lookup(self.group_intervals, group),
                   self.dates[d])]]

_get_table_name(self, group) ==
    <<DQ>> \o to_sql_name(self.prefix \o <<"_">> \o group) \o <<DQ>>

\* s.union_all(t)
union_all(s, t) == [keyword |-> "UNION ALL", left |-> s, right |-> t]

\* reduce(lambda s, t: s.union_all(t), sels[2..]) started from acc
RECURSIVE Fold(_, _)
Fold(acc, rest) ==
    IF rest = <<>> THEN acc ELSE Fold(union_all(acc, Head(rest)), Tail(rest))

\* reduce(lambda s, t: s.union_all(t), sels): with no initial value it
\* raises TypeError on an empty sequence.
Reduce(sels) ==
    IF sels = <<>> THEN Raise("TypeError")
    ELSE Return(Fold(Head(sels), Tail(sels)))

\* CreateTableAs(name, query)
CreateTableAs(name, query) == [name |-> name, query |-> query]

get_creates(self, selects) ==
    LET used == IF ~Truthy(selects) THEN get_selects(self) ELSE selects.val
        folded == [group \in DOMAIN used |-> Reduce(used[group])]
    IN  IF \E group \in DOMAIN used : folded[group].raised # ""
        THEN Raise("TypeError")
        ELSE Return([group \in DOMAIN used |->
                        CreateTableAs(_get_table_name(self, group),
                                      folded[group].ret)])

\* A faulty get_creates: the folded queries are stored back into the
\* dictionary the caller passed.
SelectsAfterCreatesInPlace(self, selects) ==
    IF Truthy(selects) /\ get_creates(self, selects).raised = ""
    THEN Dict([group \in DOMAIN selects.val |->
                  <<Reduce(selects.val[group]).ret>>])
    ELSE selects

\* The caller's dictionary after get_creates: the code rebinds its local
\* name to new dictionaries and never writes to the one passed.
SelectsAfterCreates(self, selects) == selects

get_drops(self) ==
    [group \in Keys(self.group_intervals) |->
        <<"DROP TABLE IF EXISTS ">> \o _get_table_name(self, group)
            \o <<";">>]

get_indexes(self) ==
    [group \in Keys(self.group_intervals) |->
        <<"CREATE INDEX ON ">> \o _get_table_name(self, group) \o <<" (">>
            \o group \o <<", ">> \o <<"date">> \o <<");">>]

get_join_table(self) ==
    [columns |-> [i \in 1..Len(self.groups) |-> [text |-> self.groups[i]]],
     from_obj |-> self.from_obj,
     group_by |-> self.groups]

\* str(select) of the join table, as get_create formats it with %s: the
\* clauses in SQL order.
SelectText(select) ==
    <<"SELECT ">>
        \o StrJoin(", ", [i \in 1..Len(select.columns) |->
                              select.columns[i].text])
        \o <<" FROM ">> \o select.from_obj
        \o <<" GROUP BY ">> \o StrJoin(", ", select.group_by)

\* A faulty join: the table is named without stripping the quote characters.
LeftJoinUnstripped(self, group) ==
    <<"LEFT JOIN ">> \o <<DQ>> \o self.prefix \o <<"_">> \o group \o <<DQ>>
        \o <<" USING (">> \o group \o <<", date)">>

\* The text get_create appends for one group
LeftJoin(self, group) ==
    <<"LEFT JOIN ">> \o _get_table_name(self, group)
        \o <<" USING (">> \o group \o <<", date)">>

\* The loop of get_create over self.groups
RECURSIVE LeftJoins(_, _)
LeftJoins(self, groups) ==
    IF groups = <<>> THEN <<>>
    ELSE LeftJoin(self, Head(groups)) \o LeftJoins(self, Tail(groups))

\* "%s_%s" % (self.prefix, self.suffix)
FinalName(self) == self.prefix \o <<"_">> \o self.suffix

get_create(self, join_table) ==
    LET jt == IF ~Truthy(join_table)
              THEN <<"(">> \o SelectText(get_join_table(self)) \o <<") t1">>
              ELSE join_table.val
        name == FinalName(self)
        query == <<"SELECT * FROM ">> \o jt
                     \o <<"\nCROSS JOIN (select unnest('{">>
                     \o StrJoin(",", self.dates)
                     \o <<"}'::date[]) as date) t2\n">>
                     \o LeftJoins(self, self.groups)
    IN  <<"CREATE TABLE ">> \o name \o <<" AS (">> \o query \o <<");">>

get_drop(self) ==
    <<"DROP TABLE IF EXISTS ">> \o FinalName(self)

----------------------------------------------------------------------------
(* Inputs                                                                  *)

\* Aggregate(quantity, function, name): scalars, lists and tuples, names
\* given or not, lengths matching or not, quote characters in the inputs.
AggregateArgs ==
    { [quantity |-> Str(<<"amount">>),
       function |-> List(<< <<"sum">>, <<"count">> >>),
       name |-> Str(<<"amount">>)],
      [quantity |-> List(<< <<"amount">>, <<DQ, "fee", DQ>> >>),
       function |-> Str(<<"sum">>),
       name |-> None],
      [quantity |-> List(<< <<"amount">>, <<DQ, "fee", DQ>> >>),
       function |-> List(<< <<"sum">>, <<"count">> >>),
       name |-> Tuple(<< <<"amt">>, <<"my", DQ, "fee">> >>)],
      [quantity |-> Str(<<"amount">>),
       function |-> Str(<<"sum">>),
       name |-> List(<< <<"amt">>, <<"fee">> >>)],
      [quantity |-> List(<< <<"amount">>, <<DQ, "fee", DQ>> >>),
       function |-> List(<< <<"sum">>, <<"count">> >>),
       name |-> Str(<<"amt">>)] }

\* get_columns(when, prefix)
Whens == {None, Str(<<"amount > 0">>)}

Prefixes == {None, Str(<<"p", DQ, "_">>)}

\* A reference date is written as its day number: the i-th date is day 2i.
RefDay(i) == 2 * i

DateText(i) == <<ToString(RefDay(i))>>

DateLists == {[i \in 1..n |-> DateText(i)] : n \in 0..MaxDates}

\* A window is "<n> day", "all", or anything else the caller writes.
Window(n) == <<ToString(n), " ", "day">>

GroupIntervals ==
    { <<>>,
      << [group |-> <<"id">>, intervals |-> <<Window(1), <<"all">>>>] >>,
      << [group |-> <<DQ, "zip", DQ>>,
          intervals |-> <<<<"all", " ">>, Window(0)>>],
         [group |-> <<"id">>, intervals |-> <<>>] >> }

FromObj == <<"events">>

PlanKeywords ==
    { [prefix |-> None, suffix |-> None, date_column |-> None],
      [prefix |-> Str(<<"ev", DQ, "x">>), suffix |-> Str(<<"feat">>),
       date_column |-> Str(<<"ts">>)],
      [prefix |-> Str(<<>>), suffix |-> Str(<<"f", DQ>>),
       date_column |-> None] }

\* The select dictionaries a caller passes to get_creates: none, an empty
\* one, the one get_selects returned, and customised ones (each list
\* reversed; one group only, without its first select).
Reversed(s) == [i \in 1..Len(s) |-> s[Len(s) + 1 - i]]

SuppliedSelects(self) ==
    LET selects == get_selects(self)
    IN  {None, Dict(<<>>), Dict(selects),
         Dict([group \in DOMAIN selects |-> Reversed(selects[group])])}
        \cup {Dict([g \in {group} |-> Tail(selects[group])]) :
                 group \in {h \in DOMAIN selects : selects[h] # <<>>}}

JoinTables == {None, Str(<<>>), Str(<<"entities">>)}

----------------------------------------------------------------------------
(* The state machine: one action per call                                  *)

Call(op, args, outcome, selects_after) ==
    [op |-> op, args |-> args, raised |-> outcome.raised,
     ret |-> outcome.ret, selects_after |-> selects_after]

Init ==
    /\ pool = <<>>
    /\ plan = <<>>
    /\ result = Call("none", <<>>, Return(<<>>), None)

NewAggregate ==
    /\ plan = <<>>
    /\ Len(pool) < MaxAggregates
    /\ \E a \in AggregateArgs :
        LET outcome == AggregateInit(a.quantity, a.function, a.name)
        IN  /\ pool' = IF outcome.raised = "" THEN Append(pool, outcome.ret)
                       ELSE pool
            /\ result' = Call("Aggregate", a, outcome, None)
    /\ UNCHANGED plan

GetColumns ==
    /\ \E i \in 1..Len(pool), when \in Whens, prefix \in Prefixes :
        result' = Call("get_columns",
                       [aggregate |-> i, when |-> when, prefix |-> prefix],
                       Return(get_columns(pool[i], when, prefix)), None)
    /\ UNCHANGED <<pool, plan>>

NewPlan ==
    /\ plan = <<>>
    /\ \E group_intervals \in GroupIntervals, dates \in DateLists,
          kw \in PlanKeywords :
        LET self == SpacetimeAggregationInit(pool, group_intervals, FromObj,
                        dates, kw.prefix, kw.suffix, kw.date_column)
        IN  /\ plan' = <<self>>
            /\ result' = Call("SpacetimeAggregation",
                              [group_intervals |-> group_intervals,
                               dates |-> dates, kw |-> kw],
                              Return(<<>>), None)
    /\ UNCHANGED pool

GetSelects ==
    /\ plan # <<>>
    /\ result' = Call("get_selects", <<>>, Return(get_selects(plan[1])), None)
    /\ UNCHANGED <<pool, plan>>

GetCreates ==
    /\ plan # <<>>
    /\ \E selects \in SuppliedSelects(plan[1]) :
        result' = Call("get_creates", [selects |-> selects],
                       get_creates(plan[1], selects),
                       SelectsAfterCreates(plan[1], selects))
    /\ UNCHANGED <<pool, plan>>

GetDrops ==
    /\ plan # <<>>
    /\ result' = Call("get_drops", <<>>, Return(get_drops(plan[1])), None)
    /\ UNCHANGED <<pool, plan>>

GetIndexes ==
    /\ plan # <<>>
    /\ result' = Call("get_indexes", <<>>, Return(get_indexes(plan[1])), None)
    /\ UNCHANGED <<pool, plan>>

GetJoinTable ==
    /\ plan # <<>>
    /\ result' = Call("get_join_table", <<>>,
                      Return(get_join_table(plan[1])), None)
    /\ UNCHANGED <<pool, plan>>

GetCreate ==
    /\ plan # <<>>
    /\ \E join_table \in JoinTables :
        result' = Call("get_create", [join_table |-> join_table],
                       Return(get_create(plan[1], join_table)), None)
    /\ UNCHANGED <<pool, plan>>

GetDrop ==
    /\ plan # <<>>
    /\ result' = Call("get_drop", <<>>, Return(get_drop(plan[1])), None)
    /\ UNCHANGED <<pool, plan>>

Next ==
    \/ NewAggregate
    \/ GetColumns
    \/ NewPlan
    \/ GetSelects
    \/ GetCreates
    \/ GetDrops
    \/ GetIndexes
    \/ GetJoinTable
    \/ GetCreate
    \/ GetDrop

Spec == Init /\ [][Next]_vars

----------------------------------------------------------------------------
(* Helpers of the properties                                               *)

Self == plan[1]

\* An identifier with its quote characters removed.
StripQuotes(t) == SelectSeq(t, LAMBDA c : c # DQ)

\* A window as it appears in a column name.
NoSpaces(t) == SelectSeq(t, LAMBDA c : c # " ")

\* The number of items of a scalar-or-collection argument.
Count(v) == IF v.type \in {"list", "tuple"} THEN Len(v.val) ELSE 1

\* The (function, quantity, name) triples of one Aggregate, function-major:
\* position i*Q + j (0-based) holds function i and pair j.
Triples(a) ==
    LET Q == Len(a.quantities)
    IN  [k \in 1..(Len(a.functions) * Q) |->
            [f |-> a.functions[((k - 1) \div Q) + 1],
             q |-> a.quantities[((k - 1) % Q) + 1],
             n |-> a.quantity_names[((k - 1) % Q) + 1]]]

\* The triples of a list of Aggregates, Aggregate by Aggregate.
RECURSIVE AllTriples(_)
AllTriples(aggregates) ==
    IF aggregates = <<>> THEN <<>>
    ELSE Triples(Head(aggregates)) \o AllTriples(Tail(aggregates))

\* The name of a select column: its label, or its text when it has none.
ColumnName(c) == IF "name" \in DOMAIN c THEN c.name ELSE c.text

\* The number of places where pat occurs in t.
CountOcc(t, pat) ==
    Cardinality({k \in 1..(Len(t) - Len(pat) + 1) :
                    SubSeq(t, k, k + Len(pat) - 1) = pat})

Contains(t, fragment) == \E k \in 1..Len(t) : t[k] = fragment

First(t, fragment) ==
    CHOOSE k \in 1..Len(t) :
        t[k] = fragment /\ \A h \in 1..(k - 1) : t[h] # fragment

\* The text of t strictly between the first a and the first b.
Between(t, a, b) == SubSeq(t, First(t, a) + 1, First(t, b) - 1)

\* t with every fragment equal to a replaced by b.
Subst(t, a, b) == [k \in 1..Len(t) |-> IF t[k] = a THEN b ELSE t[k]]

\* The columns of the w-th window (1-based) in a select of get_selects.
WindowColumns(select, aggregates, w) ==
    LET n == Len(AllTriples(aggregates))
    IN  SubSeq(select.columns, 2 + (w - 1) * n + 1, 2 + w * n)

(* SQL's reading of the two date conditions, with a date as a day number,  *)
(* a window "<n> day" as n days and the events' date column named col.     *)

Days == 0..(RefDay(MaxDates) + 1)

IsDay(fragment) == \E n \in Days : fragment = ToString(n)

DayOf(fragment) == CHOOSE n \in Days : fragment = ToString(n)

IsDuration(w) == \E n \in Days : w = Window(n)

Duration(w) == CHOOSE n \in Days : w = Window(n)

\* <col> < '<date>'   or   <col> <= '<date>'
IsCutoff(t, col) ==
    /\ Len(t) = Len(col) + 3
    /\ SubSeq(t, 1, Len(col)) = col
    /\ t[Len(col) + 1] \in {" < '", " <= '"}
    /\ IsDay(t[Len(col) + 2])
    /\ t[Len(t)] = "'"

CutoffKeeps(t, col, e) ==
    /\ IsCutoff(t, col)
    /\ IF t[Len(col) + 1] = " < '" THEN e < DayOf(t[Len(col) + 2])
       ELSE e <= DayOf(t[Len(col) + 2])

\* '<date>' <= <col> + interval '<window>'   (or with <)
IsWindowTest(t, col) ==
    /\ Len(t) >= Len(col) + 6
    /\ t[1] = "'"
    /\ IsDay(t[2])
    /\ t[3] \in {"' <= ", "' < "}
    /\ SubSeq(t, 4, 3 + Len(col)) = col
    /\ t[4 + Len(col)] = " + interval '"
    /\ IsDuration(SubSeq(t, 5 + Len(col), Len(t) - 1))
    /\ t[Len(t)] = "'"

WindowAdmits(t, col, e) ==
    /\ IsWindowTest(t, col)
    /\ LET w == Duration(SubSeq(t, 5 + Len(col), Len(t) - 1))
       IN  IF t[3] = "' <= " THEN DayOf(t[2]) <= e + w
           ELSE DayOf(t[2]) < e + w

\* f(CASE WHEN <predicate> THEN q END): the predicate
HasCase(text) == Contains(text, "(CASE WHEN ") /\ Contains(text, " THEN ")

CasePredicate(text) == Between(text, "(CASE WHEN ", " THEN ")

\* An event dated e reaches the aggregate of column c of a select: the row
\* passes the WHERE and the CASE hands its quantity to the function.
Feeds(select, c, col, e) ==
    /\ CutoffKeeps(select.where, col, e)
    /\ HasCase(c.text) => WindowAdmits(CasePredicate(c.text), col, e)

QueryOps ==
    {"get_columns", "get_selects", "get_creates", "get_drops", "get_indexes",
     "get_join_table", "get_create", "get_drop"}

----------------------------------------------------------------------------
(* Properties                                                              *)

\* C1: get_columns yields exactly F*Q columns, function-major: the column at
\* position i*Q + j is built from function i and quantity/name pair j, and
\* is named <prefix><name_j>_<function_i> with quote characters stripped.
C1_CrossProduct ==
    result.op = "get_columns" =>
        LET a == pool[result.args.aggregate]
            F == Len(a.functions)
            Q == Len(a.quantities)
            when == result.args.when
            prefix == IF result.args.prefix.type = "NoneType" THEN <<>>
                      ELSE result.args.prefix.val
        IN  /\ Len(result.ret) = F * Q
            /\ \A i \in 0..(F - 1), j \in 0..(Q - 1) :
                LET c == result.ret[i * Q + j + 1]
                    f == a.functions[i + 1]
                    q == a.quantities[j + 1]
                    n == a.quantity_names[j + 1]
                IN  /\ c.name = StripQuotes(prefix \o n \o <<"_">> \o f)
                    /\ c.text =
                         IF when.type = "NoneType"
                         THEN f \o <<"(">> \o q \o <<")">>
                         ELSE f \o <<"(CASE WHEN ">> \o when.val
                                  \o <<" THEN ">> \o q \o <<" END)">>

C1_Witness ==
    /\ result.op = "get_columns"
    /\ Len(pool[result.args.aggregate].functions) = 2
    /\ Len(pool[result.args.aggregate].quantities) = 2
    /\ result.args.prefix.type = "str"
    /\ Len(result.ret) = 4
    /\ result.ret[2].name # result.ret[3].name

\* C2: with names supplied, construction fails with the length-mismatch
\* error exactly when the number of names differs from the number of
\* quantities (a scalar counts as one); a failed construction leaves no
\* Aggregate behind, a successful one leaves exactly the new one.
C2_NameLength ==
    /\ [](result.op = "Aggregate" /\ result.args.name.type # "NoneType" =>
            /\ result.raised \in {"", "ValueError"}
            /\ result.raised = "ValueError" <=>
                   Count(result.args.name) # Count(result.args.quantity))
    /\ [][result'.op = "Aggregate" =>
            IF result'.raised # "" THEN pool' = pool
            ELSE /\ Len(pool') = Len(pool) + 1
                 /\ SubSeq(pool', 1, Len(pool)) = pool
                 /\ pool'[Len(pool')] = result'.ret
                 /\ Len(result'.ret.quantity_names)
                        = Len(result'.ret.quantities)]_vars

C2_Witness ==
    /\ result.op = "Aggregate"
    /\ result.args.name.type = "list"
    /\ result.args.quantity.type = "str"
    /\ result.raised = "ValueError"
    /\ Len(pool) = 1

\* C3: no generation call of a constructed plan raises, whatever the
\* reference dates (the empty list included), the group-to-windows mapping
\* and the Aggregates; get_creates is the call without a select dictionary.
C3_GenerationNeverRaises ==
    (/\ result.op \in QueryOps
     /\ result.op = "get_creates" => result.args.selects = None)
        => result.raised = ""

\* C4: in every per-(group, date) SELECT, an event dated e passes the outer
\* WHERE iff e < d, and reaches the aggregate of a window of w days iff in
\* addition d <= e + w; both conditions are present, and no event the
\* cutoff rejects reaches an aggregate.
C4_CutoffIndependence ==
    result.op = "get_selects" =>
        \A group \in DOMAIN result.ret :
        \A k \in 1..Len(result.ret[group]) :
            LET select == result.ret[group][k]
                col == Self.date_column
                d == DayOf(Self.dates[k][1])
                windows == Lookup(Self.group_intervals, group)
            IN  /\ IsCutoff(select.where, col)
                /\ \A e \in Days : CutoffKeeps(select.where, col, e) <=> e < d
                /\ \A w \in 1..Len(windows) :
                       IsDuration(windows[w]) =>
                       LET cs == WindowColumns(select, Self.aggregates, w)
                       IN  \A c \in 1..Len(cs) :
                           /\ HasCase(cs[c].text)
                           /\ IsWindowTest(CasePredicate(cs[c].text), col)
                           /\ \A e \in Days :
                               /\ Feeds(select, cs[c], col, e) <=>
                                      (e < d /\ d <= e + Duration(windows[w]))
                               /\ Feeds(select, cs[c], col, e) =>
                                      CutoffKeeps(select.where, col, e)

\* A select for day 4 with a window of 1 day: the event of day 3 (exactly one
\* window before) feeds the aggregate, the event of day 4 is cut off.
C4_Witness ==
    /\ result.op = "get_selects"
    /\ \E group \in DOMAIN result.ret :
          /\ Len(result.ret[group]) = 2
          /\ Lookup(Self.group_intervals, group) # <<>>
          /\ Lookup(Self.group_intervals, group)[1] = Window(1)
          /\ Self.aggregates # <<>>
          /\ LET select == result.ret[group][2]
                 c == WindowColumns(select, Self.aggregates, 1)[1]
             IN  /\ Feeds(select, c, Self.date_column, 3)
                 /\ ~Feeds(select, c, Self.date_column, 2)
                 /\ ~CutoffKeeps(select.where, Self.date_column, 4)

\* C5: for the window "all" no predicate is built and every column of that
\* window is f(q); for every other window string a predicate is built and
\* every column of that window is f(CASE WHEN <predicate> THEN q END).
C5_WindowAll ==
    result.op = "get_selects" =>
        \A group \in DOMAIN result.ret :
        \A k \in 1..Len(result.ret[group]) :
            LET select == result.ret[group][k]
                windows == Lookup(Self.group_intervals, group)
                triples == AllTriples(Self.aggregates)
            IN  \A w \in 1..Len(windows) :
                LET cs == WindowColumns(select, Self.aggregates, w)
                    when == WindowPredicate(Self, windows[w], Self.dates[k])
                IN  /\ Len(cs) = Len(triples)
                    /\ when = None <=> windows[w] = <<"all">>
                    /\ \A c \in 1..Len(cs) :
                        IF windows[w] = <<"all">>
                        THEN cs[c].text = triples[c].f \o <<"(">>
                                              \o triples[c].q \o <<")">>
                        ELSE /\ when.val # <<>>
                             /\ cs[c].text =
                                    triples[c].f \o <<"(CASE WHEN ">>
                                        \o when.val \o <<" THEN ">>
                                        \o triples[c].q \o <<" END)">>

\* A select whose group has a window other than "all", with a predicate in
\* its first column, and the window "all", with none.
C5_Witness ==
    /\ result.op = "get_selects"
    /\ Self.aggregates # <<>>
    /\ \E group \in DOMAIN result.ret :
          /\ result.ret[group] # <<>>
          /\ LET windows == Lookup(Self.group_intervals, group)
                 columns(w) == WindowColumns(result.ret[group][1],
                                             Self.aggregates, w)
             IN  \E v, w \in 1..Len(windows) :
                     /\ windows[v] # <<"all">>
                     /\ HasCase(columns(v)[1].text)
                     /\ windows[w] = <<"all">>
                     /\ ~HasCase(columns(w)[1].text)

\* The column names the k-th select of a group must have, by the naming
\* scheme; Clean is what is done to each aggregate column's name.
ExpectedNames(self, group, Clean(_)) ==
    LET windows == Lookup(self.group_intervals, group)
        triples == AllTriples(self.aggregates)
        n == Len(triples)
    IN  <<group, <<"date">>>> \o
        [x \in 1..(Len(windows) * n) |->
            LET w == windows[((x - 1) \div n) + 1]
                t == triples[((x - 1) % n) + 1]
            IN  Clean(self.prefix \o <<"_">> \o group \o <<"_">>
                          \o NoSpaces(w) \o <<"_">> \o t.n \o <<"_">> \o t.f)]

Names(select) == [c \in 1..Len(select.columns) |-> ColumnName(select.columns[c])]

\* The select of the first date rewritten for the k-th date.
Redated(select, from, to) ==
    [columns |-> [c \in 1..Len(select.columns) |->
                     [select.columns[c] EXCEPT
                         !.text = Subst(select.columns[c].text, from, to)]],
     from_obj |-> select.from_obj,
     where |-> Subst(select.where, from, to),
     group_by |-> select.group_by]

SelectsShape(Clean(_)) ==
    result.op = "get_selects" =>
        /\ DOMAIN result.ret = Keys(Self.group_intervals)
        /\ \A group \in DOMAIN result.ret :
            /\ Len(result.ret[group]) = Len(Self.dates)
            /\ \A k \in 1..Len(result.ret[group]) :
                LET select == result.ret[group][k]
                IN  /\ select.columns[2].text
                           = <<"'">> \o Self.dates[k] \o <<"'::date">>
                    /\ Names(select) = ExpectedNames(Self, group, Clean)
                    /\ select = Redated(result.ret[group][1],
                                        Self.dates[1][1], Self.dates[k][1])

Unchanged(t) == t

\* C6 as stated: the key set is that of group_windows, each group has one
\* SELECT per reference date in order, all with the column names
\* <prefix>_<group>_<window-without-spaces>_<name>_<function>, differing only
\* in the reference date.
C6_SelectsAsStated == SelectsShape(Unchanged)

\* C6 as the code has it: the same, with the quote characters stripped from
\* each aggregate column's name.
C6_Selects == SelectsShape(StripQuotes)

C6_Witness ==
    /\ result.op = "get_selects"
    /\ Len(Self.dates) = 2
    /\ Len(Self.aggregates) = 2
    /\ Cardinality(DOMAIN result.ret) = 2
    /\ \E group \in DOMAIN result.ret :
          /\ Contains(group, DQ)
          /\ Len(result.ret[group][2].columns) > 2
          /\ result.ret[group][1] # result.ret[group][2]

\* The per-date selects a (possibly nested) union combines, left to right,
\* and the keywords that combine them.
RECURSIVE Leaves(_)
Leaves(q) ==
    IF "keyword" \in DOMAIN q THEN Leaves(q.left) \o Leaves(q.right)
    ELSE <<q>>

RECURSIVE UnionKeywords(_)
UnionKeywords(q) ==
    IF "keyword" \in DOMAIN q
    THEN UnionKeywords(q.left) \o <<q.keyword>> \o UnionKeywords(q.right)
    ELSE <<>>

\* An identifier by the rule: quote characters stripped, then quoted whole.
Quoted(raw) == <<DQ>> \o StripQuotes(raw) \o <<DQ>>

\* What get_creates must return when it works from the dictionary "used".
CreatesFrom(used) ==
    /\ \A group \in DOMAIN used :
          Len(used[group]) >= 1 =>
              /\ result.raised = ""
              /\ group \in DOMAIN result.ret
              /\ LET create == result.ret[group]
                     D == Len(used[group])
                 IN  /\ create.name
                            = Quoted(Self.prefix \o <<"_">> \o group)
                     /\ Leaves(create.query) = used[group]
                     /\ UnionKeywords(create.query)
                            = [x \in 1..(D - 1) |-> "UNION ALL"]
    /\ result.raised = "" => DOMAIN result.ret = DOMAIN used

\* C7: for every group with D >= 1 per-date SELECTs, get_creates yields one
\* CREATE TABLE AS, named with the group's table name, whose query combines
\* exactly those D SELECTs, once each and in order, with D-1 UNION ALL; a
\* select dictionary is used instead of get_selects whenever one is supplied.
C7_UnionAsStated ==
    result.op = "get_creates" =>
        CreatesFrom(IF result.args.selects.type = "NoneType"
                    THEN get_selects(Self)
                    ELSE result.args.selects.val)

\* C8: every identifier is rendered by one rule, quote characters stripped
\* and the whole identifier quoted: the column names (a label is quoted by
\* the SQL compiler, so it is the stripped name), the per-group table names
\* of get_creates, get_drops, get_indexes and the LEFT JOINs of get_create,
\* and the final table name of get_create and get_drop.
C8_IdentifierRule ==
    /\ result.op = "get_selects" =>
          \A group \in DOMAIN result.ret :
          \A k \in 1..Len(result.ret[group]) :
          \A c \in 2..Len(result.ret[group][k].columns) :
              ~Contains(result.ret[group][k].columns[c].name, DQ)
    /\ result.op = "get_creates" /\ result.raised = "" =>
          \A group \in DOMAIN result.ret :
              result.ret[group].name = Quoted(Self.prefix \o <<"_">> \o group)
    /\ result.op = "get_drops" =>
          \A group \in DOMAIN result.ret :
              result.ret[group] =
                  <<"DROP TABLE IF EXISTS ">>
                      \o Quoted(Self.prefix \o <<"_">> \o group) \o <<";">>
    /\ result.op = "get_indexes" =>
          \A group \in DOMAIN result.ret :
              result.ret[group] =
                  <<"CREATE INDEX ON ">>
                      \o Quoted(Self.prefix \o <<"_">> \o group)
                      \o <<" (">> \o group \o <<", ", "date", ");">>
    /\ result.op = "get_create" =>
          /\ \A group \in Keys(Self.group_intervals) :
                CountOcc(result.ret,
                         <<"LEFT JOIN ">>
                             \o Quoted(Self.prefix \o <<"_">> \o group)
                             \o <<" USING (">>) = 1
          /\ CountOcc(result.ret,
                      <<"CREATE TABLE ">>
                          \o Quoted(Self.prefix \o <<"_">> \o Self.suffix)
                          \o <<" AS (">>) = 1
    /\ result.op = "get_drop" =>
          result.ret = <<"DROP TABLE IF EXISTS ">>
                           \o Quoted(Self.prefix \o <<"_">> \o Self.suffix)

DropsName(group) ==
    Between(get_drops(Self)[group], "DROP TABLE IF EXISTS ", ";")

IndexesName(group) ==
    Between(get_indexes(Self)[group], "CREATE INDEX ON ", " (")

\* The dates the spine lists: the text between the braces, cut at commas.
SpineDates(text) ==
    LET inner == Between(text, "\nCROSS JOIN (select unnest('{",
                         "}'::date[]) as date) t2\n")
    IN  [inner |-> inner,
         dates |-> SelectSeq(inner, LAMBDA c : c # ",")]

\* C10: the final statement cross-joins the group-combinations relation
\* with a spine listing every reference date once, in order, and has exactly
\* one LEFT JOIN per group key, on (group key, date), to the table named as
\* in get_creates, get_drops and get_indexes; it is wrapped as
\* CREATE TABLE <prefix>_<suffix> AS, the name get_drop drops.
C10_FinalStatement ==
    result.op = "get_create" =>
        LET t == result.ret
            name == Self.prefix \o <<"_">> \o Self.suffix
            head == <<"CREATE TABLE ">> \o name \o <<" AS (">>
                        \o <<"SELECT * FROM ">>
            relation == IF Truthy(result.args.join_table)
                        THEN result.args.join_table.val
                        ELSE <<"(">> \o SelectText(get_join_table(Self))
                                 \o <<") t1">>
            spine == SpineDates(t)
            creates == get_creates(Self, None)
        IN  /\ SubSeq(t, 1, Len(head) + Len(relation)) = head \o relation
            /\ t[Len(head) + Len(relation) + 1]
                   = "\nCROSS JOIN (select unnest('{"
            /\ t[Len(t)] = ");"
            /\ get_drop(Self) = <<"DROP TABLE IF EXISTS ">> \o name
            /\ CountOcc(t, <<"\nCROSS JOIN (select unnest('{">>) = 1
            /\ spine.dates = [k \in 1..Len(Self.dates) |-> Self.dates[k][1]]
            /\ Len(spine.inner) =
                   IF Self.dates = <<>> THEN 0 ELSE 2 * Len(Self.dates) - 1
            /\ CountOcc(t, <<"LEFT JOIN ">>) = Len(Self.group_intervals)
            /\ \A group \in Keys(Self.group_intervals) :
                /\ CountOcc(t, <<"LEFT JOIN ">> \o DropsName(group)
                                   \o <<" USING (">> \o group
                                   \o <<", date)">>) = 1
                /\ IndexesName(group) = DropsName(group)
                /\ creates.raised = "" =>
                       creates.ret[group].name = DropsName(group)

C10_Witness ==
    /\ result.op = "get_create"
    /\ Len(Self.dates) = 2
    /\ Len(Self.group_intervals) = 2
    /\ Contains(Self.prefix, DQ)
    /\ CountOcc(result.ret, <<"LEFT JOIN ">>) = 2

====
